---- MODULE Spec2Model ----
(***************************************************************************)
(* A model of STM32RTC (src/src/STM32RTC.cpp): the object's cached         *)
(* calendar, time and alarm members, the RTC peripheral behind the         *)
(* RTC_* driver calls, and one action per public method.                   *)
(*                                                                         *)
(* The driver layer is outside this file.  It is modelled as the register  *)
(* file it fronts: RTC_SetTime / RTC_SetDate / RTC_StartAlarm store what   *)
(* they are handed, RTC_GetTime / RTC_GetDate / RTC_GetAlarm return what   *)
(* is stored, so that the values the wrapper passes down stay visible.     *)
(*                                                                         *)
(* A 32-bit epoch value is held as a pair [d, s] standing for              *)
(* d * 86400 + s with 0 <= s < 86400: the values reach 2^32 - 1, beyond    *)
(* the integers of the model checker, and the pair keeps them exact.       *)
(***************************************************************************)
EXTENDS Integers, Sequences, FiniteSets, TLC

(* ------------------------------ bounds -------------------------------- *)

\* Seconds the hardware may advance during one behaviour.
MaxTicks == 1

(* ----------------------------- constants ------------------------------ *)

\* EPOCH_TIME_OFF = 946684800 = 10957 days: 1st January 2000, 00:00:00.
EPOCH_TIME_OFF_DAYS == 10957
\* EPOCH_TIME_YEAR_OFF: years since 1900.
EPOCH_TIME_YEAR_OFF == 100
\* RTC_WEEKDAY_SUNDAY, the driver's number for Sunday.
RTC_WEEKDAY_SUNDAY == 7

SecsPerDay == 86400
\* 2^32 = U32Days * 86400 + U32Secs.
U32Days == 49710
U32Secs == 23296

VARIABLES
  _timeSet, _format, _clockSource,
  _hoursPeriod, _hours, _minutes, _seconds, _subSeconds,
  _year, _month, _day, _wday,
  _alarmDay, _alarmHours, _alarmMinutes, _alarmSeconds, _alarmSubSeconds,
  _alarmPeriod, _alarmMatch,
  rtcTime, rtcDate, rtcAlarm, rtcAlarmSet, rtcConfigured,
  ticks, call

timeC == <<_hoursPeriod, _hours, _minutes, _seconds, _subSeconds>>
dateC == <<_year, _month, _day, _wday>>
alarmC == <<_alarmDay, _alarmHours, _alarmMinutes, _alarmSeconds,
            _alarmSubSeconds, _alarmPeriod, _alarmMatch>>
confC == <<_format, _clockSource>>
rtcAlarmRegs == <<rtcAlarm, rtcAlarmSet>>
vars == <<_timeSet, confC, timeC, dateC, alarmC, rtcTime, rtcDate,
          rtcAlarmRegs, rtcConfigured, ticks, call>>

(* ------------------------- the driver layer --------------------------- *)

\* The calendar the peripheral holds once RTC_init has (re)initialised it.
RtcResetTime ==
  [hours |-> 0, minutes |-> 0, seconds |-> 0, subSeconds |-> 0,
   period |-> "HOUR_AM"]

RtcResetDate == [year |-> 1, month |-> 1, day |-> 1, wday |-> 1]

RtcResetAlarm ==
  [day |-> 1, hours |-> 0, minutes |-> 0, seconds |-> 0, subSeconds |-> 0,
   period |-> "HOUR_AM", match |-> "MATCH_OFF"]

RTC_SetTime(hours, minutes, seconds, subSeconds, period) ==
  [hours |-> hours, minutes |-> minutes, seconds |-> seconds,
   subSeconds |-> subSeconds, period |-> period]

RTC_SetDate(year, month, day, wday) ==
  [year |-> year, month |-> month, day |-> day, wday |-> wday]

RTC_StartAlarm(day, hours, minutes, seconds, subSeconds, period, mask) ==
  [day |-> day, hours |-> hours, minutes |-> minutes, seconds |-> seconds,
   subSeconds |-> subSeconds, period |-> period, match |-> mask]

(* --------------------- conversions and validation --------------------- *)

\* (_hoursPeriod == AM) ? HOUR_AM : HOUR_PM
HalPeriod(period) == IF period = "AM" THEN "HOUR_AM" ELSE "HOUR_PM"

\* (p == HOUR_AM) ? AM : PM
WrapPeriod(p) == IF p = "HOUR_AM" THEN "AM" ELSE "PM"

IsAlarmMatch(match) ==
  match \in {"MATCH_OFF", "MATCH_YYMMDDHHMMSS", "MATCH_MMDDHHMMSS",
             "MATCH_DHHMMSS", "MATCH_HHMMSS", "MATCH_MMSS", "MATCH_SS"}

(* --------------------------- synchronisation -------------------------- *)

\* RTC_GetTime into the time members, with the period converted.
ReadTime(hw) ==
  [hours |-> hw.hours, minutes |-> hw.minutes, seconds |-> hw.seconds,
   subSeconds |-> hw.subSeconds, hoursPeriod |-> WrapPeriod(hw.period)]

\* RTC_GetDate into the date members.
ReadDate(hw) ==
  [year |-> hw.year, month |-> hw.month, day |-> hw.day, wday |-> hw.wday]

\* syncTime: the time members as read back from the peripheral.
syncTime == ReadTime(rtcTime)

\* syncDate: the date members as read back from the peripheral.
syncDate == ReadDate(rtcDate)

\* syncAlarmTime: the alarm members as read back from the peripheral.
syncAlarmTime ==
  [day |-> rtcAlarm.day, hours |-> rtcAlarm.hours,
   minutes |-> rtcAlarm.minutes, seconds |-> rtcAlarm.seconds,
   subSeconds |-> rtcAlarm.subSeconds,
   period |-> WrapPeriod(rtcAlarm.period),
   match |-> IF IsAlarmMatch(rtcAlarm.match) THEN rtcAlarm.match
             ELSE "MATCH_OFF"]

\* The members as they stand, without a read of the peripheral.
cachedTime ==
  [hours |-> _hours, minutes |-> _minutes, seconds |-> _seconds,
   subSeconds |-> _subSeconds, hoursPeriod |-> _hoursPeriod]

cachedDate == [year |-> _year, month |-> _month, day |-> _day, wday |-> _wday]

cachedAlarm ==
  [day |-> _alarmDay, hours |-> _alarmHours, minutes |-> _alarmMinutes,
   seconds |-> _alarmSeconds, subSeconds |-> _alarmSubSeconds,
   period |-> _alarmPeriod, match |-> _alarmMatch]

\* Assignment of a record of time members to the members.
StoreTime(t) ==
  /\ _hours' = t.hours
  /\ _minutes' = t.minutes
  /\ _seconds' = t.seconds
  /\ _subSeconds' = t.subSeconds
  /\ _hoursPeriod' = t.hoursPeriod

StoreDate(d) ==
  /\ _year' = d.year
  /\ _month' = d.month
  /\ _day' = d.day
  /\ _wday' = d.wday

StoreAlarm(a) ==
  /\ _alarmDay' = a.day
  /\ _alarmHours' = a.hours
  /\ _alarmMinutes' = a.minutes
  /\ _alarmSeconds' = a.seconds
  /\ _alarmSubSeconds' = a.subSeconds
  /\ _alarmPeriod' = a.period
  /\ _alarmMatch' = a.match

NoArgs == <<>>

\* The call just made: its name, its arguments and what it returned; for a
\* setter, rd is what its syncTime or syncDate read from the peripheral on
\* entry and other is what the registers it does not read held then; for a
\* call that programs the alarm, hal is the driver call it made; for the
\* epoch setters, which read nothing, rd is the members on entry.
Called(op, args, ret) ==
  [op |-> op, args |-> args, ret |-> ret, rd |-> NoArgs, other |-> NoArgs,
   hal |-> NoArgs]

CalledSetter(op, args, rd, other) ==
  [op |-> op, args |-> args, ret |-> NoArgs, rd |-> rd, other |-> other,
   hal |-> NoArgs]

CalledAlarm(op, args, hal) ==
  [op |-> op, args |-> args, ret |-> NoArgs, rd |-> NoArgs, other |-> NoArgs,
   hal |-> hal]

(* ------------------------------ Init ---------------------------------- *)

Init ==
  /\ _timeSet = FALSE
  /\ _format \in {"HOUR_12", "HOUR_24"}
  /\ _clockSource = "LSI_CLOCK"
  /\ _hoursPeriod = "AM"
  /\ _hours = 0 /\ _minutes = 0 /\ _seconds = 0 /\ _subSeconds = 0
  /\ _year = 0 /\ _month = 0 /\ _day = 0 /\ _wday = 0
  /\ _alarmDay = 0 /\ _alarmHours = 0 /\ _alarmMinutes = 0
  /\ _alarmSeconds = 0 /\ _alarmSubSeconds = 0
  /\ _alarmPeriod = "AM" /\ _alarmMatch = "MATCH_OFF"
  /\ rtcTime = RtcResetTime
  /\ rtcDate = RtcResetDate
  /\ rtcAlarm = RtcResetAlarm
  /\ rtcAlarmSet = FALSE
  /\ rtcConfigured \in BOOLEAN
  /\ ticks = 0
  /\ call = Called("none", NoArgs, NoArgs)

(* ------------------------- the hardware clock ------------------------- *)

\* One second later on the peripheral's time registers.
RtcNextTime(t) ==
  IF t.seconds < 59 THEN [t EXCEPT !.seconds = t.seconds + 1]
  ELSE IF t.minutes < 59
       THEN [t EXCEPT !.seconds = 0, !.minutes = t.minutes + 1]
  ELSE IF t.hours < 23
       THEN [t EXCEPT !.seconds = 0, !.minutes = 0, !.hours = t.hours + 1]
  ELSE [t EXCEPT !.seconds = 0, !.minutes = 0, !.hours = 0]

\* The date registers after that second: a new day at the end of 23:59:59.
RtcNextDate(t, d) ==
  IF t.seconds < 59 \/ t.minutes < 59 \/ t.hours < 23 THEN d
  ELSE LET wd == IF d.wday < 7 THEN d.wday + 1 ELSE 1 IN
       IF d.day < 31 THEN [d EXCEPT !.day = d.day + 1, !.wday = wd]
       ELSE IF d.month < 12
            THEN [d EXCEPT !.day = 1, !.month = d.month + 1, !.wday = wd]
       ELSE [d EXCEPT !.day = 1, !.month = 1, !.wday = wd,
                      !.year = IF d.year < 99 THEN d.year + 1 ELSE 0]

\* The peripheral counts on by itself, between two calls.  With mayCarry
\* false the model follows it only while the second does not carry.
Tick(mayCarry) ==
  /\ ticks < MaxTicks
  /\ mayCarry \/ rtcTime.seconds < 59
  /\ ticks' = ticks + 1
  /\ rtcTime' = RtcNextTime(rtcTime)
  /\ rtcDate' = RtcNextDate(rtcTime, rtcDate)
  /\ call' = Called("tick", NoArgs, NoArgs)
  /\ UNCHANGED <<_timeSet, confC, timeC, dateC, alarmC, rtcAlarmRegs,
                 rtcConfigured>>

(* ------------------------------ getters ------------------------------- *)

\* What a time getter leaves alone.
TimeGetFrame ==
  UNCHANGED <<_timeSet, confC, dateC, alarmC, rtcTime, rtcDate,
              rtcAlarmRegs, rtcConfigured, ticks>>

DateGetFrame ==
  UNCHANGED <<_timeSet, confC, timeC, alarmC, rtcTime, rtcDate,
              rtcAlarmRegs, rtcConfigured, ticks>>

AlarmGetFrame ==
  UNCHANGED <<_timeSet, confC, timeC, dateC, rtcTime, rtcDate,
              rtcAlarmRegs, rtcConfigured, ticks>>

getSubSeconds ==
  /\ StoreTime(syncTime)
  /\ call' = Called("getSubSeconds", NoArgs, <<_subSeconds'>>)
  /\ TimeGetFrame

\* getSeconds without its syncTime.
getSeconds_NoSync ==
  /\ StoreTime(cachedTime)
  /\ call' = Called("getSeconds", NoArgs, <<_seconds'>>)
  /\ TimeGetFrame

getSeconds ==
  /\ StoreTime(syncTime)
  /\ call' = Called("getSeconds", NoArgs, <<_seconds'>>)
  /\ TimeGetFrame

getMinutes ==
  /\ StoreTime(syncTime)
  /\ call' = Called("getMinutes", NoArgs, <<_minutes'>>)
  /\ TimeGetFrame

\* getHours(&period)
getHours ==
  /\ StoreTime(syncTime)
  /\ call' = Called("getHours", NoArgs, <<_hours', _hoursPeriod'>>)
  /\ TimeGetFrame

\* getTime(&hours, &minutes, &seconds, &subSeconds, &period)
getTime ==
  /\ StoreTime(syncTime)
  /\ call' = Called("getTime", NoArgs,
                    <<_hours', _minutes', _seconds', _subSeconds',
                      _hoursPeriod'>>)
  /\ TimeGetFrame

getWeekDay ==
  /\ StoreDate(syncDate)
  /\ call' = Called("getWeekDay", NoArgs, <<_wday'>>)
  /\ DateGetFrame

getDay ==
  /\ StoreDate(syncDate)
  /\ call' = Called("getDay", NoArgs, <<_day'>>)
  /\ DateGetFrame

getMonth ==
  /\ StoreDate(syncDate)
  /\ call' = Called("getMonth", NoArgs, <<_month'>>)
  /\ DateGetFrame

getYear ==
  /\ StoreDate(syncDate)
  /\ call' = Called("getYear", NoArgs, <<_year'>>)
  /\ DateGetFrame

\* getDate(&weekDay, &day, &month, &year)
getDate ==
  /\ StoreDate(syncDate)
  /\ call' = Called("getDate", NoArgs,
                    <<_wday', _day', _month', _year'>>)
  /\ DateGetFrame

getAlarmSubSeconds ==
  /\ StoreAlarm(syncAlarmTime)
  /\ call' = Called("getAlarmSubSeconds", NoArgs,
                    <<_alarmSubSeconds'>>)
  /\ AlarmGetFrame

getAlarmSeconds ==
  /\ StoreAlarm(syncAlarmTime)
  /\ call' = Called("getAlarmSeconds", NoArgs, <<_alarmSeconds'>>)
  /\ AlarmGetFrame

getAlarmMinutes ==
  /\ StoreAlarm(syncAlarmTime)
  /\ call' = Called("getAlarmMinutes", NoArgs, <<_alarmMinutes'>>)
  /\ AlarmGetFrame

\* getAlarmHours(&period)
getAlarmHours ==
  /\ StoreAlarm(syncAlarmTime)
  /\ call' = Called("getAlarmHours", NoArgs,
                    <<_alarmHours', _alarmPeriod'>>)
  /\ AlarmGetFrame

getAlarmDay ==
  /\ StoreAlarm(syncAlarmTime)
  /\ call' = Called("getAlarmDay", NoArgs, <<_alarmDay'>>)
  /\ AlarmGetFrame

(* ------------------------ time and date setters ----------------------- *)

\* What a time setter leaves alone.
TimeSetFrame ==
  UNCHANGED <<confC, dateC, alarmC, rtcDate, rtcAlarmRegs, rtcConfigured,
              ticks>>

DateSetFrame ==
  UNCHANGED <<confC, timeC, alarmC, rtcTime, rtcAlarmRegs, rtcConfigured,
              ticks>>

\* RTC_SetTime(_hours, _minutes, _seconds, _subSeconds, period) on the
\* members as just assigned.
WriteTime ==
  rtcTime' = RTC_SetTime(_hours', _minutes', _seconds', _subSeconds',
                         HalPeriod(_hoursPeriod'))

\* RTC_SetDate(_year, _month, _day, _wday) on the members as just assigned.
WriteDate == rtcDate' = RTC_SetDate(_year', _month', _day', _wday')

setSubSeconds(subSeconds) ==
  LET t == syncTime IN
  /\ StoreTime([t EXCEPT !.subSeconds =
                  IF subSeconds < 1000 THEN subSeconds ELSE @])
  /\ WriteTime
  /\ _timeSet' = TRUE
  /\ call' = CalledSetter("setSubSeconds", <<subSeconds>>, rtcTime, rtcDate)
  /\ TimeSetFrame

\* setSeconds accepting 60: an off-by-one in the range check.
setSeconds_OffByOne(seconds) ==
  LET t == syncTime IN
  /\ StoreTime([t EXCEPT !.seconds = IF seconds <= 60 THEN seconds ELSE @])
  /\ WriteTime
  /\ _timeSet' = TRUE
  /\ call' = CalledSetter("setSeconds", <<seconds>>, rtcTime, rtcDate)
  /\ TimeSetFrame

setSeconds(seconds) ==
  LET t == syncTime IN
  /\ StoreTime([t EXCEPT !.seconds = IF seconds < 60 THEN seconds ELSE @])
  /\ WriteTime
  /\ _timeSet' = TRUE
  /\ call' = CalledSetter("setSeconds", <<seconds>>, rtcTime, rtcDate)
  /\ TimeSetFrame

\* setMinutes without its syncTime: the other fields come from the members.
setMinutes_NoSync(minutes) ==
  LET t == cachedTime IN
  /\ StoreTime([t EXCEPT !.minutes = IF minutes < 60 THEN minutes ELSE @])
  /\ WriteTime
  /\ _timeSet' = TRUE
  /\ call' = CalledSetter("setMinutes", <<minutes>>, rtcTime, rtcDate)
  /\ TimeSetFrame

setMinutes(minutes) ==
  LET t == syncTime IN
  /\ StoreTime([t EXCEPT !.minutes = IF minutes < 60 THEN minutes ELSE @])
  /\ WriteTime
  /\ _timeSet' = TRUE
  /\ call' = CalledSetter("setMinutes", <<minutes>>, rtcTime, rtcDate)
  /\ TimeSetFrame

setHours(hours, period) ==
  LET t == syncTime IN
  /\ StoreTime([t EXCEPT
                  !.hours = IF hours < 24 THEN hours ELSE @,
                  !.hoursPeriod = IF _format = "HOUR_12" THEN period ELSE @])
  /\ WriteTime
  /\ _timeSet' = TRUE
  /\ call' = CalledSetter("setHours", <<hours, period>>, rtcTime, rtcDate)
  /\ TimeSetFrame

setTime(hours, minutes, seconds, subSeconds, period) ==
  LET t == syncTime IN
  /\ StoreTime([t EXCEPT
                  !.subSeconds = IF subSeconds < 1000 THEN subSeconds ELSE @,
                  !.seconds = IF seconds < 60 THEN seconds ELSE @,
                  !.minutes = IF minutes < 60 THEN minutes ELSE @,
                  !.hours = IF hours < 24 THEN hours ELSE @,
                  !.hoursPeriod = IF _format = "HOUR_12" THEN period ELSE @])
  /\ WriteTime
  /\ _timeSet' = TRUE
  /\ call' = CalledSetter("setTime",
                          <<hours, minutes, seconds, subSeconds, period>>,
                          rtcTime, rtcDate)
  /\ TimeSetFrame

setWeekDay(weekDay) ==
  LET d == syncDate IN
  /\ StoreDate([d EXCEPT !.wday =
                  IF (weekDay >= 1) /\ (weekDay <= 7) THEN weekDay ELSE @])
  /\ WriteDate
  /\ _timeSet' = TRUE
  /\ call' = CalledSetter("setWeekDay", <<weekDay>>, rtcDate, rtcTime)
  /\ DateSetFrame

setDay(day) ==
  LET d == syncDate IN
  /\ StoreDate([d EXCEPT !.day =
                  IF (day >= 1) /\ (day <= 31) THEN day ELSE @])
  /\ WriteDate
  /\ _timeSet' = TRUE
  /\ call' = CalledSetter("setDay", <<day>>, rtcDate, rtcTime)
  /\ DateSetFrame

setMonth(month) ==
  LET d == syncDate IN
  /\ StoreDate([d EXCEPT !.month =
                  IF (month >= 1) /\ (month <= 12) THEN month ELSE @])
  /\ WriteDate
  /\ _timeSet' = TRUE
  /\ call' = CalledSetter("setMonth", <<month>>, rtcDate, rtcTime)
  /\ DateSetFrame

setYear(year) ==
  LET d == syncDate IN
  /\ StoreDate([d EXCEPT !.year = IF year < 100 THEN year ELSE @])
  /\ WriteDate
  /\ _timeSet' = TRUE
  /\ call' = CalledSetter("setYear", <<year>>, rtcDate, rtcTime)
  /\ DateSetFrame

\* setDate(day, month, year)
setDate3(day, month, year) ==
  LET d == syncDate IN
  /\ StoreDate([d EXCEPT
                  !.day = IF (day >= 1) /\ (day <= 31) THEN day ELSE @,
                  !.month = IF (month >= 1) /\ (month <= 12) THEN month ELSE @,
                  !.year = IF year < 100 THEN year ELSE @])
  /\ WriteDate
  /\ _timeSet' = TRUE
  /\ call' = CalledSetter("setDate3", <<day, month, year>>, rtcDate, rtcTime)
  /\ DateSetFrame

\* setDate storing the day without its range check.
setDate_DayUnchecked(weekDay, day, month, year) ==
  LET d == syncDate IN
  /\ StoreDate([d EXCEPT
                  !.wday = IF (weekDay >= 1) /\ (weekDay <= 7)
                           THEN weekDay ELSE @,
                  !.day = day,
                  !.month = IF (month >= 1) /\ (month <= 12) THEN month ELSE @,
                  !.year = IF year < 100 THEN year ELSE @])
  /\ WriteDate
  /\ _timeSet' = TRUE
  /\ call' = CalledSetter("setDate", <<weekDay, day, month, year>>,
                          rtcDate, rtcTime)
  /\ DateSetFrame

\* setDate(weekDay, day, month, year)
setDate(weekDay, day, month, year) ==
  LET d == syncDate IN
  /\ StoreDate([d EXCEPT
                  !.wday = IF (weekDay >= 1) /\ (weekDay <= 7)
                           THEN weekDay ELSE @,
                  !.day = IF (day >= 1) /\ (day <= 31) THEN day ELSE @,
                  !.month = IF (month >= 1) /\ (month <= 12) THEN month ELSE @,
                  !.year = IF year < 100 THEN year ELSE @])
  /\ WriteDate
  /\ _timeSet' = TRUE
  /\ call' = CalledSetter("setDate", <<weekDay, day, month, year>>,
                          rtcDate, rtcTime)
  /\ DateSetFrame

(* --------------------------- begin and end ---------------------------- *)

\* begin(resetTime, format).  RTC_init reports a re-initialisation when it
\* was asked for one or when the peripheral holds no configuration; the
\* calendar then restarts from its reset value.
begin(resetTime, format) ==
  LET reinit == resetTime \/ ~rtcConfigured IN
  /\ _format' = format
  /\ rtcConfigured' = TRUE
  /\ IF reinit
     THEN /\ rtcTime' = RtcResetTime
          /\ rtcDate' = RtcResetDate
          /\ _timeSet' = FALSE
          /\ StoreTime(ReadTime(rtcTime'))
          /\ StoreDate(ReadDate(rtcDate'))
          /\ _alarmDay' = _day'
          /\ _alarmHours' = _hours'
          /\ _alarmMinutes' = _minutes'
          /\ _alarmSeconds' = _seconds'
          /\ _alarmSubSeconds' = _subSeconds'
          /\ _alarmPeriod' = _hoursPeriod'
          /\ UNCHANGED _alarmMatch
     ELSE /\ _timeSet' = TRUE
          /\ UNCHANGED <<timeC, dateC, alarmC, rtcTime, rtcDate>>
  /\ call' = Called("begin", <<resetTime, format>>, <<reinit>>)
  /\ UNCHANGED <<_clockSource, rtcAlarmRegs, ticks>>

\* end() without its assignment to _timeSet.
end_KeepsTimeSet ==
  /\ rtcConfigured' = FALSE
  /\ call' = Called("end", NoArgs, NoArgs)
  /\ UNCHANGED <<_timeSet, confC, timeC, dateC, alarmC, rtcTime, rtcDate,
                 rtcAlarmRegs, ticks>>

\* end(): RTC_DeInit drops the peripheral's configuration.
end ==
  /\ rtcConfigured' = FALSE
  /\ _timeSet' = FALSE
  /\ call' = Called("end", NoArgs, NoArgs)
  /\ UNCHANGED <<confC, timeC, dateC, alarmC, rtcTime, rtcDate,
                 rtcAlarmRegs, ticks>>

(* ------------------------------ the alarm ----------------------------- *)

\* What a setter of alarm members leaves alone.
AlarmSetFrame ==
  UNCHANGED <<_timeSet, confC, timeC, dateC, rtcTime, rtcDate, rtcAlarmRegs,
              rtcConfigured, ticks>>

\* The alarm members after setAlarmSubSeconds(subSeconds) on members a.
AlarmSubSeconds(a, subSeconds) ==
  [a EXCEPT !.subSeconds = IF subSeconds < 1000 THEN subSeconds ELSE @]

AlarmSeconds(a, seconds) ==
  [a EXCEPT !.seconds = IF seconds < 60 THEN seconds ELSE @]

AlarmMinutes(a, minutes) ==
  [a EXCEPT !.minutes = IF minutes < 60 THEN minutes ELSE @]

AlarmHours(a, hours, period) ==
  [a EXCEPT !.hours = IF hours < 24 THEN hours ELSE @,
            !.period = IF _format = "HOUR_12" THEN period ELSE @]

AlarmDay(a, day) ==
  [a EXCEPT !.day = IF (day >= 1) /\ (day <= 31) THEN day ELSE @]

setAlarmSubSeconds(subSeconds) ==
  /\ StoreAlarm(AlarmSubSeconds(cachedAlarm, subSeconds))
  /\ call' = Called("setAlarmSubSeconds", <<subSeconds>>, NoArgs)
  /\ AlarmSetFrame

setAlarmSeconds(seconds) ==
  /\ StoreAlarm(AlarmSeconds(cachedAlarm, seconds))
  /\ call' = Called("setAlarmSeconds", <<seconds>>, NoArgs)
  /\ AlarmSetFrame

setAlarmMinutes(minutes) ==
  /\ StoreAlarm(AlarmMinutes(cachedAlarm, minutes))
  /\ call' = Called("setAlarmMinutes", <<minutes>>, NoArgs)
  /\ AlarmSetFrame

setAlarmHours(hours, period) ==
  /\ StoreAlarm(AlarmHours(cachedAlarm, hours, period))
  /\ call' = Called("setAlarmHours", <<hours, period>>, NoArgs)
  /\ AlarmSetFrame

setAlarmTime(hours, minutes, seconds, subSeconds, period) ==
  /\ StoreAlarm(AlarmSubSeconds(AlarmSeconds(AlarmMinutes(
                  AlarmHours(cachedAlarm, hours, period), minutes), seconds),
                  subSeconds))
  /\ call' = Called("setAlarmTime",
                    <<hours, minutes, seconds, subSeconds, period>>, NoArgs)
  /\ AlarmSetFrame

setAlarmDay(day) ==
  /\ StoreAlarm(AlarmDay(cachedAlarm, day))
  /\ call' = Called("setAlarmDay", <<day>>, NoArgs)
  /\ AlarmSetFrame

\* setAlarmDate(day, month, year): month and year are ignored.
setAlarmDate(day, month, year) ==
  /\ StoreAlarm(AlarmDay(cachedAlarm, day))
  /\ call' = Called("setAlarmDate", <<day, month, year>>, NoArgs)
  /\ AlarmSetFrame

\* The driver call of enableAlarm(match) on alarm members a: RTC_StopAlarm,
\* RTC_StartAlarm with its seven arguments, or none.
EnableAlarmCall(a, match) ==
  CASE match = "MATCH_OFF" -> <<"RTC_StopAlarm">>
    [] match \in {"MATCH_YYMMDDHHMMSS", "MATCH_MMDDHHMMSS", "MATCH_DHHMMSS",
                  "MATCH_HHMMSS", "MATCH_MMSS", "MATCH_SS"} ->
         <<"RTC_StartAlarm", a.day, a.hours, a.minutes, a.seconds,
           a.subSeconds, HalPeriod(a.period), match>>
    [] OTHER -> NoArgs

\* The alarm registers after that driver call.
AfterAlarmCall(hal) ==
  IF hal = NoArgs THEN UNCHANGED rtcAlarmRegs
  ELSE IF hal[1] = "RTC_StopAlarm"
       THEN rtcAlarmSet' = FALSE /\ UNCHANGED rtcAlarm
  ELSE /\ rtcAlarm' = RTC_StartAlarm(hal[2], hal[3], hal[4], hal[5], hal[6],
                                     hal[7], hal[8])
       /\ rtcAlarmSet' = TRUE

enableAlarm(match) ==
  LET a == [cachedAlarm EXCEPT !.match = match]
      hal == EnableAlarmCall(a, match)
  IN /\ StoreAlarm(a)
     /\ AfterAlarmCall(hal)
     /\ call' = CalledAlarm("enableAlarm", <<match>>, hal)
     /\ UNCHANGED <<_timeSet, confC, timeC, dateC, rtcTime, rtcDate,
                    rtcConfigured, ticks>>

disableAlarm ==
  /\ AfterAlarmCall(<<"RTC_StopAlarm">>)
  /\ call' = CalledAlarm("disableAlarm", NoArgs, <<"RTC_StopAlarm">>)
  /\ UNCHANGED <<_timeSet, confC, timeC, dateC, alarmC, rtcTime, rtcDate,
                 rtcConfigured, ticks>>

(* ------------------------- epoch arithmetic --------------------------- *)

\* The 32-bit value d * 86400 + s.
Ts(d, s) == [d |-> d, s |-> s]

\* EPOCH_TIME_OFF
EpochOff == Ts(EPOCH_TIME_OFF_DAYS, 0)

\* a < b on 32-bit values.
U32Less(a, b) == a.d < b.d \/ (a.d = b.d /\ a.s < b.s)

\* The conversion of d * 86400 + s, 0 <= s < 86400, to uint32_t: modulo 2^32.
RECURSIVE U32Wrap(_, _)
U32Wrap(d, s) ==
  IF d < 0
  THEN IF s + U32Secs < SecsPerDay
       THEN U32Wrap(d + U32Days, s + U32Secs)
       ELSE U32Wrap(d + U32Days + 1, s + U32Secs - SecsPerDay)
  ELSE IF d > U32Days \/ (d = U32Days /\ s >= U32Secs)
       THEN IF s >= U32Secs
            THEN U32Wrap(d - U32Days, s - U32Secs)
            ELSE U32Wrap(d - U32Days - 1, s - U32Secs + SecsPerDay)
  ELSE Ts(d, s)

\* a + b and a - b in uint32_t.
U32Add(a, b) ==
  U32Wrap(a.d + b.d + ((a.s + b.s) \div SecsPerDay),
          (a.s + b.s) % SecsPerDay)

U32Sub(a, b) ==
  IF a.s >= b.s THEN U32Wrap(a.d - b.d, a.s - b.s)
  ELSE U32Wrap(a.d - b.d - 1, a.s - b.s + SecsPerDay)

\* The conversion of a value to uint8_t.
U8(x) == x % 256

\* gmtime: the broken-down UTC time of t seconds after 1970-01-01 00:00:00,
\* a Thursday (time_t holds every uint32_t value).
gmtime(t) ==
  LET z == t.d + 719468
      era == z \div 146097
      doe == z - era * 146097
      yoe == (doe - (doe \div 1460) + (doe \div 36524) - (doe \div 146096))
               \div 365
      doy == doe - (365 * yoe + (yoe \div 4) - (yoe \div 100))
      mp == (5 * doy + 2) \div 153
      mday == doy - ((153 * mp + 2) \div 5) + 1
      mon == IF mp < 10 THEN mp + 3 ELSE mp - 9
      year == yoe + era * 400 + (IF mon <= 2 THEN 1 ELSE 0)
  IN [tm_year |-> year - 1900, tm_mon |-> mon - 1, tm_mday |-> mday,
      tm_wday |-> (t.d + 4) % 7, tm_hour |-> t.s \div 3600,
      tm_min |-> (t.s % 3600) \div 60, tm_sec |-> t.s % 60]

\* mktime with no time zone set: the inverse, after bringing the fields into
\* range; the result as days and seconds since 1970-01-01 00:00:00.
mktime(tm) ==
  LET y0 == 1900 + tm.tm_year + (tm.tm_mon \div 12)
      m == (tm.tm_mon % 12) + 1
      y == IF m <= 2 THEN y0 - 1 ELSE y0
      era == y \div 400
      yoe == y - era * 400
      doy == ((153 * (IF m > 2 THEN m - 3 ELSE m + 9) + 2) \div 5)
               + tm.tm_mday - 1
      doe == yoe * 365 + (yoe \div 4) - (yoe \div 100) + doy
      secs == tm.tm_hour * 3600 + tm.tm_min * 60 + tm.tm_sec
  IN Ts(era * 146097 + doe - 719468 + (secs \div SecsPerDay),
        secs % SecsPerDay)

(* --------------------------- epoch calls ------------------------------ *)

\* if (ts < EPOCH_TIME_OFF) { ts = EPOCH_TIME_OFF; }
ClampEpoch_None(ts) == ts

ClampEpoch(ts) == IF U32Less(ts, EpochOff) THEN EpochOff ELSE ts

\* The date members setEpoch assigns from the broken-down time; _year is a
\* uint8_t.
EpochDate(tmp) ==
  [year |-> U8(tmp.tm_year - EPOCH_TIME_YEAR_OFF), month |-> tmp.tm_mon + 1,
   day |-> tmp.tm_mday,
   wday |-> IF tmp.tm_wday = 0 THEN RTC_WEEKDAY_SUNDAY ELSE tmp.tm_wday]

\* The time members setEpoch assigns; it leaves _hoursPeriod as it is.
EpochTime(tmp, subSeconds) ==
  [hours |-> tmp.tm_hour, minutes |-> tmp.tm_min, seconds |-> tmp.tm_sec,
   subSeconds |-> subSeconds, hoursPeriod |-> _hoursPeriod]

\* The body of setEpoch(ts, subSeconds), entered as call op(args); rd holds
\* the time members on entry.
EpochSet(op, args, ts, subSeconds) ==
  LET tmp == gmtime(ClampEpoch(ts)) IN
  /\ StoreDate(EpochDate(tmp))
  /\ StoreTime(EpochTime(tmp, subSeconds))
  /\ WriteDate
  /\ WriteTime
  /\ _timeSet' = TRUE
  /\ call' = CalledSetter(op, args, cachedTime, cachedDate)
  /\ UNCHANGED <<confC, alarmC, rtcAlarmRegs, rtcConfigured, ticks>>

setEpoch(ts, subSeconds) ==
  EpochSet("setEpoch", <<ts, subSeconds>>, ts, subSeconds)

\* setY2kEpoch(ts): setEpoch(ts + EPOCH_TIME_OFF), the sum a uint32_t and
\* subSeconds at its default of 0.
setY2kEpoch(ts) == EpochSet("setY2kEpoch", <<ts>>, U32Add(ts, EpochOff), 0)

\* What getEpoch hands to mktime after syncDate and syncTime, and the
\* uint32_t it returns.
EpochTm ==
  [tm_year |-> syncDate.year + EPOCH_TIME_YEAR_OFF,
   tm_mon |-> syncDate.month - 1, tm_mday |-> syncDate.day,
   tm_hour |-> syncTime.hours, tm_min |-> syncTime.minutes,
   tm_sec |-> syncTime.seconds]

EpochValue == U32Wrap(mktime(EpochTm).d, mktime(EpochTm).s)

\* The body of getEpoch, entered as call op and returning ret.
EpochGet(op, ret) ==
  /\ StoreDate(syncDate)
  /\ StoreTime(syncTime)
  /\ call' = Called(op, NoArgs, ret)
  /\ UNCHANGED <<_timeSet, confC, alarmC, rtcTime, rtcDate, rtcAlarmRegs,
                 rtcConfigured, ticks>>

\* getEpoch(&subSeconds) returns the epoch and stores the sub-seconds.
getEpoch == EpochGet("getEpoch", <<EpochValue, syncTime.subSeconds>>)

getY2kEpoch == EpochGet("getY2kEpoch", <<U32Sub(EpochValue, EpochOff)>>)

\* The alarm members after the five setter calls of setAlarmEpoch on
\* members a; setAlarmHours is called with its default period, AM.
AlarmFromTm(a, tmp, subSeconds) ==
  AlarmSubSeconds(AlarmSeconds(AlarmMinutes(
    AlarmHours(AlarmDay(a, tmp.tm_mday), tmp.tm_hour, "AM"),
    tmp.tm_min), tmp.tm_sec), subSeconds)

\* setAlarmEpoch(ts, match, subSeconds); rd holds the alarm members on
\* entry.
setAlarmEpoch(ts, match, subSeconds) ==
  LET a == [AlarmFromTm(cachedAlarm, gmtime(ClampEpoch(ts)), subSeconds)
              EXCEPT !.match = match]
      hal == EnableAlarmCall(a, match)
  IN /\ StoreAlarm(a)
     /\ AfterAlarmCall(hal)
     /\ call' = [CalledAlarm("setAlarmEpoch", <<ts, match, subSeconds>>, hal)
                   EXCEPT !.rd = cachedAlarm]
     /\ UNCHANGED <<_timeSet, confC, timeC, dateC, rtcTime, rtcDate,
                    rtcConfigured, ticks>>

(* ------------------------- configForLowPower -------------------------- *)

\* The object and the peripheral as one value, for the calls that
\* configForLowPower makes one after the other.
ObjectState ==
  [timeSet |-> _timeSet, format |-> _format, clockSource |-> _clockSource,
   time |-> cachedTime, date |-> cachedDate, alarm |-> cachedAlarm,
   rtcTime |-> rtcTime, rtcDate |-> rtcDate, rtcAlarm |-> rtcAlarm,
   rtcAlarmSet |-> rtcAlarmSet, rtcConfigured |-> rtcConfigured]

\* begin(resetTime, format) on s.
BeginIn(s, resetTime, format) ==
  IF resetTime \/ ~s.rtcConfigured
  THEN [s EXCEPT !.format = format, !.rtcConfigured = TRUE,
                 !.timeSet = FALSE,
                 !.rtcTime = RtcResetTime, !.rtcDate = RtcResetDate,
                 !.time = ReadTime(RtcResetTime),
                 !.date = ReadDate(RtcResetDate),
                 !.alarm = [@ EXCEPT !.day = RtcResetDate.day,
                                     !.hours = RtcResetTime.hours,
                                     !.minutes = RtcResetTime.minutes,
                                     !.seconds = RtcResetTime.seconds,
                                     !.subSeconds = RtcResetTime.subSeconds,
                                     !.period =
                                        WrapPeriod(RtcResetTime.period)]]
  ELSE [s EXCEPT !.format = format, !.rtcConfigured = TRUE,
                 !.timeSet = TRUE]

\* end() on s.
EndIn(s) == [s EXCEPT !.rtcConfigured = FALSE, !.timeSet = FALSE]

\* getDate(...) and getTime(...) on s: both groups of members are read
\* from the peripheral.
GetDateTimeIn(s) ==
  [s EXCEPT !.date = ReadDate(s.rtcDate), !.time = ReadTime(s.rtcTime)]

\* setTime(hours, minutes, seconds, subSeconds, period) on s.
SetTimeIn(s, hours, minutes, seconds, subSeconds, period) ==
  LET r == ReadTime(s.rtcTime)
      t == [hours |-> IF hours < 24 THEN hours ELSE r.hours,
            minutes |-> IF minutes < 60 THEN minutes ELSE r.minutes,
            seconds |-> IF seconds < 60 THEN seconds ELSE r.seconds,
            subSeconds |-> IF subSeconds < 1000 THEN subSeconds
                           ELSE r.subSeconds,
            hoursPeriod |-> IF s.format = "HOUR_12" THEN period
                            ELSE r.hoursPeriod]
  IN [s EXCEPT !.time = t, !.timeSet = TRUE,
               !.rtcTime = RTC_SetTime(t.hours, t.minutes, t.seconds,
                                       t.subSeconds,
                                       HalPeriod(t.hoursPeriod))]

\* setDate(weekDay, day, month, year) on s.
SetDateIn(s, weekDay, day, month, year) ==
  LET r == ReadDate(s.rtcDate)
      d == [wday |-> IF (weekDay >= 1) /\ (weekDay <= 7) THEN weekDay
                     ELSE r.wday,
            day |-> IF (day >= 1) /\ (day <= 31) THEN day ELSE r.day,
            month |-> IF (month >= 1) /\ (month <= 12) THEN month
                      ELSE r.month,
            year |-> IF year < 100 THEN year ELSE r.year]
  IN [s EXCEPT !.date = d, !.timeSet = TRUE,
               !.rtcDate = RTC_SetDate(d.year, d.month, d.day, d.wday)]

\* setAlarmTime(hours, minutes, seconds, subSeconds, period) on s.
SetAlarmTimeIn(s, hours, minutes, seconds, subSeconds, period) ==
  [s EXCEPT !.alarm =
     [@ EXCEPT !.hours = IF hours < 24 THEN hours ELSE @,
               !.period = IF s.format = "HOUR_12" THEN period ELSE @,
               !.minutes = IF minutes < 60 THEN minutes ELSE @,
               !.seconds = IF seconds < 60 THEN seconds ELSE @,
               !.subSeconds = IF subSeconds < 1000 THEN subSeconds ELSE @]]

\* setAlarmDay(day) on s.
SetAlarmDayIn(s, day) ==
  [s EXCEPT !.alarm = AlarmDay(@, day)]

\* enableAlarm(match) on s.
EnableAlarmIn(s, match) ==
  LET a == [s.alarm EXCEPT !.match = match]
      hal == EnableAlarmCall(a, match)
  IN [s EXCEPT !.alarm = a,
               !.rtcAlarmSet = IF hal = NoArgs THEN @
                               ELSE hal[1] = "RTC_StartAlarm",
               !.rtcAlarm = IF hal = NoArgs \/ hal[1] = "RTC_StopAlarm" THEN @
                            ELSE RTC_StartAlarm(hal[2], hal[3], hal[4],
                                                hal[5], hal[6], hal[7],
                                                hal[8])]

\* An AM_PM value where a uint32_t is expected: the enumerators follow the
\* driver's HOUR_AM, HOUR_PM.
PeriodAsInteger(period) == IF period = "AM" THEN 0 ELSE 1

\* The block of configForLowPower that runs when the clock source changes,
\* on the state s the first begin() left: the alarm members and the
\* calendar are saved, the RTC is stopped and started on the new source,
\* and what was saved is set again.  getTime and setTime take the three
\* locals in the same, exchanged, order; setAlarmTime is handed the saved
\* alarm period where its subSeconds parameter stands and so takes its
\* period by default.
SwitchSource(s, source) ==
  LET saved == GetDateTimeIn(s)
      s1 == BeginIn([EndIn(saved) EXCEPT !.clockSource = source],
                    FALSE, saved.format)
      s2 == SetTimeIn(s1, saved.time.hours, saved.time.minutes,
                      saved.time.seconds, saved.time.subSeconds,
                      saved.time.hoursPeriod)
      s3 == SetDateIn(s2, saved.date.wday, saved.date.day, saved.date.month,
                      saved.date.year)
      s4 == SetAlarmTimeIn(s3, s.alarm.hours, s.alarm.minutes,
                           s.alarm.seconds,
                           PeriodAsInteger(s.alarm.period), "AM")
      s5 == SetAlarmDayIn(s4, s.alarm.day)
  IN IF s5.rtcAlarmSet THEN EnableAlarmIn(s5, s.alarm.match) ELSE s5

\* The state configForLowPower(source) leaves, in a build with the power
\* module enabled: begin() is begin(false, HOUR_24).
LowPowerResult(source) ==
  LET s0 == BeginIn(ObjectState, FALSE, "HOUR_24")
      s1 == IF s0.clockSource # source THEN SwitchSource(s0, source) ELSE s0
  IN IF ~s1.timeSet THEN SetTimeIn(s1, 12, 0, 0, 0, "AM") ELSE s1

configForLowPower(source) ==
  LET s == LowPowerResult(source) IN
  /\ _timeSet' = s.timeSet
  /\ _format' = s.format
  /\ _clockSource' = s.clockSource
  /\ StoreTime(s.time)
  /\ StoreDate(s.date)
  /\ StoreAlarm(s.alarm)
  /\ rtcTime' = s.rtcTime
  /\ rtcDate' = s.rtcDate
  /\ rtcAlarm' = s.rtcAlarm
  /\ rtcAlarmSet' = s.rtcAlarmSet
  /\ rtcConfigured' = s.rtcConfigured
  /\ call' = Called("configForLowPower", <<source>>, NoArgs)
  /\ UNCHANGED ticks

(* ----------------------- arguments of the calls ----------------------- *)

\* For each parameter: its largest valid value, the first invalid value
\* above it, the invalid value below it where there is one, and the largest
\* value of its type that the model holds.
SubSecondsArgs == {999, 1000}
SecondsArgs == {59, 60, 255}
MinutesArgs == {59, 60, 255}
HoursArgs == {23, 24, 255}
WeekDayArgs == {0, 7, 8}
DayArgs == {0, 31, 32}
MonthArgs == {0, 12, 13}
YearArgs == {99, 100, 255}
PeriodArgs == {"AM", "PM"}
FormatArgs == {"HOUR_12", "HOUR_24"}

\* <<hours, minutes, seconds, subSeconds>> of setTime: all valid, all
\* invalid, and the two alternations.
TimeArgs ==
  {<<23, 59, 59, 999>>, <<24, 60, 60, 1000>>, <<23, 60, 59, 1000>>,
   <<24, 59, 60, 999>>}

\* <<weekDay, day, month, year>> of setDate, likewise.
DateArgs ==
  {<<7, 31, 12, 99>>, <<0, 0, 0, 100>>, <<8, 32, 13, 255>>,
   <<7, 32, 12, 100>>, <<0, 31, 13, 99>>}

(* ------------------ the time and date setters alone ------------------ *)

NextSet ==
  \/ Tick(FALSE)
  \/ \E v \in SubSecondsArgs : setSubSeconds(v)
  \/ \E v \in SecondsArgs : setSeconds(v)
  \/ \E v \in MinutesArgs : setMinutes(v)
  \/ \E v \in HoursArgs, p \in PeriodArgs : setHours(v, p)
  \/ \E a \in TimeArgs, p \in PeriodArgs :
        setTime(a[1], a[2], a[3], a[4], p)
  \/ \E v \in WeekDayArgs : setWeekDay(v)
  \/ \E v \in DayArgs : setDay(v)
  \/ \E v \in MonthArgs : setMonth(v)
  \/ \E v \in YearArgs : setYear(v)
  \/ \E a \in DateArgs : setDate3(a[2], a[3], a[4])
  \/ \E a \in DateArgs : setDate(a[1], a[2], a[3], a[4])

SpecSet == Init /\ [][NextSet]_vars

(* --------------------------- the epoch calls -------------------------- *)

\* Epochs: 0, the last second of 1999, 2000-01-01 00:00:00, Sunday
\* 2024-03-03 12:34:56, 2100-01-01 00:00:00 and 2^32 - 1.
EpochArgs ==
  {Ts(0, 0), Ts(10956, 86399), Ts(10957, 0), Ts(19785, 45296),
   Ts(47482, 0), Ts(49710, 23295)}

\* Epochs counted from 2000: 0, the last second of 2099, the largest one
\* whose sum with EPOCH_TIME_OFF is below 2^32 and the one after it.
Y2kEpochArgs ==
  {Ts(0, 0), Ts(36524, 86399), Ts(38753, 23295), Ts(38753, 23296)}

AlarmEpochArgs == {Ts(0, 0), Ts(10957, 0), Ts(19785, 45296)}

\* MATCH_OTHER stands for a value of the type that is no enumerator.
MatchArgs == {"MATCH_OFF", "MATCH_SS", "MATCH_DHHMMSS", "MATCH_OTHER"}

NextEpoch ==
  \/ Tick(TRUE)
  \/ \E ts \in EpochArgs, v \in SubSecondsArgs : setEpoch(ts, v)
  \/ \E ts \in Y2kEpochArgs : setY2kEpoch(ts)
  \/ getEpoch
  \/ getY2kEpoch
  \/ \E ts \in AlarmEpochArgs, v \in SubSecondsArgs :
        setAlarmEpoch(ts, "MATCH_DHHMMSS", v)
  \/ setHours(23, "PM")

SpecEpoch == Init /\ [][NextEpoch]_vars

(* ------------------------------ the alarm ----------------------------- *)

NextAlarm ==
  \/ begin(FALSE, "HOUR_24")
  \/ setAlarmSubSeconds(1000)
  \/ \E v \in {30, 60} : setAlarmSeconds(v)
  \/ setAlarmMinutes(60)
  \/ setAlarmHours(24, "PM")
  \/ setAlarmTime(0, 0, 30, 0, "AM")
  \/ \E v \in {0, 31} : setAlarmDay(v)
  \/ setAlarmDate(31, 13, 100)
  \/ \E m \in MatchArgs : enableAlarm(m)
  \/ disableAlarm
  \/ setAlarmEpoch(Ts(10957, 0), "MATCH_DHHMMSS", 1000)
  \/ getAlarmSubSeconds
  \/ getAlarmSeconds
  \/ getAlarmMinutes
  \/ getAlarmHours
  \/ getAlarmDay

SpecAlarm == Init /\ [][NextAlarm]_vars

(* ----------------------------- the getters ---------------------------- *)

NextGet ==
  \/ Tick(TRUE)
  \/ begin(TRUE, "HOUR_12")
  \/ setTime(23, 59, 59, 999, "PM")
  \/ setDate(7, 31, 12, 99)
  \/ setAlarmSeconds(30)
  \/ setAlarmDay(31)
  \/ \E m \in {"MATCH_OFF", "MATCH_DHHMMSS"} : enableAlarm(m)
  \/ getSubSeconds
  \/ getSeconds
  \/ getMinutes
  \/ getHours
  \/ getTime
  \/ getWeekDay
  \/ getDay
  \/ getMonth
  \/ getYear
  \/ getDate
  \/ getAlarmSubSeconds
  \/ getAlarmSeconds
  \/ getAlarmMinutes
  \/ getAlarmHours
  \/ getAlarmDay

SpecGet == Init /\ [][NextGet]_vars

(* --------------------------- the time-set flag ------------------------ *)

SourceArgs == {"LSI_CLOCK", "LSE_CLOCK"}

\* Every kind of call that bears on the flag, the single-field setters with
\* a rejected argument.
NextFlag ==
  \/ Tick(FALSE)
  \/ \E r \in BOOLEAN, f \in FormatArgs : begin(r, f)
  \/ end
  \/ \E s \in SourceArgs : configForLowPower(s)
  \/ setSubSeconds(1000)
  \/ setSeconds(60)
  \/ setMinutes(60)
  \/ setHours(24, "AM")
  \/ setTime(12, 0, 0, 0, "AM")
  \/ setWeekDay(0)
  \/ setDay(0)
  \/ setMonth(0)
  \/ setYear(100)
  \/ setDate3(32, 13, 100)
  \/ setDate(6, 1, 1, 0)
  \/ setEpoch(Ts(10957, 0), 0)
  \/ setY2kEpoch(Ts(0, 0))
  \/ getTime
  \/ getDate
  \/ getEpoch
  \/ getAlarmDay
  \/ setAlarmSeconds(60)
  \/ setAlarmDay(0)
  \/ enableAlarm("MATCH_SS")
  \/ disableAlarm

SpecFlag == Init /\ [][NextFlag]_vars

(* ------------------------- the change of source ----------------------- *)

NextLowPower ==
  \/ \E f \in FormatArgs : begin(FALSE, f)
  \/ \E p \in PeriodArgs : setTime(11, 30, 15, 500, p)
  \/ setDate(3, 15, 6, 24)
  \/ setAlarmTime(6, 45, 30, 999, "PM")
  \/ \E m \in {"MATCH_OFF", "MATCH_DHHMMSS"} : enableAlarm(m)
  \/ \E s \in SourceArgs : configForLowPower(s)

SpecLowPower == Init /\ [][NextLowPower]_vars

(* ------------------- what a call was asked to store ------------------- *)

TimeSetters ==
  {"setSubSeconds", "setSeconds", "setMinutes", "setHours", "setTime"}

DateSetters ==
  {"setWeekDay", "setDay", "setMonth", "setYear", "setDate3", "setDate"}

\* Setters of one numeric field and nothing else.
OneFieldSetters ==
  {"setSubSeconds", "setSeconds", "setMinutes", "setWeekDay", "setDay",
   "setMonth", "setYear"}

TimeFields == {"hours", "minutes", "seconds", "subSeconds"}
DateFields == {"year", "month", "day", "wday"}

\* The value call c supplies for field f: a set of one value, empty when the
\* call has no parameter for the field.
Supplied(c, f) ==
  CASE c.op = "setSubSeconds" /\ f = "subSeconds" -> {c.args[1]}
    [] c.op = "setSeconds" /\ f = "seconds" -> {c.args[1]}
    [] c.op = "setMinutes" /\ f = "minutes" -> {c.args[1]}
    [] c.op = "setHours" /\ f = "hours" -> {c.args[1]}
    [] c.op = "setTime" /\ f = "hours" -> {c.args[1]}
    [] c.op = "setTime" /\ f = "minutes" -> {c.args[2]}
    [] c.op = "setTime" /\ f = "seconds" -> {c.args[3]}
    [] c.op = "setTime" /\ f = "subSeconds" -> {c.args[4]}
    [] c.op = "setWeekDay" /\ f = "wday" -> {c.args[1]}
    [] c.op = "setDay" /\ f = "day" -> {c.args[1]}
    [] c.op = "setMonth" /\ f = "month" -> {c.args[1]}
    [] c.op = "setYear" /\ f = "year" -> {c.args[1]}
    [] c.op = "setDate3" /\ f = "day" -> {c.args[1]}
    [] c.op = "setDate3" /\ f = "month" -> {c.args[2]}
    [] c.op = "setDate3" /\ f = "year" -> {c.args[3]}
    [] c.op = "setDate" /\ f = "wday" -> {c.args[1]}
    [] c.op = "setDate" /\ f = "day" -> {c.args[2]}
    [] c.op = "setDate" /\ f = "month" -> {c.args[3]}
    [] c.op = "setDate" /\ f = "year" -> {c.args[4]}
    [] OTHER -> {}

\* The AM/PM argument of the call, likewise.
SuppliedPeriod(c) ==
  CASE c.op = "setHours" -> {c.args[2]}
    [] c.op = "setTime" -> {c.args[5]}
    [] OTHER -> {}

\* The documented range of each field.
FieldRange(f) ==
  CASE f = "subSeconds" -> 0..999
    [] f = "seconds" -> 0..59
    [] f = "minutes" -> 0..59
    [] f = "hours" -> 0..23
    [] f = "wday" -> 1..7
    [] f = "day" -> 1..31
    [] f = "month" -> 1..12
    [] f = "year" -> 0..99

AllFields == TimeFields \cup DateFields

AllArgsValid(c) ==
  \A f \in AllFields : Supplied(c, f) \subseteq FieldRange(f)

SomeArgInvalid(c) == ~AllArgsValid(c)

TimeInRange(t) == \A f \in TimeFields : t[f] \in FieldRange(f)
DateInRange(d) == \A f \in DateFields : d[f] \in FieldRange(f)

\* The registers of the call's group after the call, given what they held
\* when it started: each field holds the supplied value when that value is
\* valid, and what was read otherwise.
ExpectedField(c, f, before) ==
  IF Supplied(c, f) # {} /\ Supplied(c, f) \subseteq FieldRange(f)
  THEN CHOOSE v \in Supplied(c, f) : TRUE
  ELSE before[f]

(* --------------------------------- C2 --------------------------------- *)

\* C2 as stated.  A time or date setter called with valid arguments leaves
\* in the hardware the supplied value of every field it names, the AM/PM
\* period of setHours and setTime included, leaves the other fields of the
\* group as they were read when the call started, and leaves the members
\* equal to the hardware.
C2_WriteThrough_AsClaimed ==
  (call.op \in TimeSetters \cup DateSetters /\ AllArgsValid(call)) =>
       /\ call.op \in TimeSetters =>
            /\ \A f \in TimeFields :
                 rtcTime[f] = ExpectedField(call, f, call.rd)
            /\ rtcTime.period =
                 IF SuppliedPeriod(call) # {}
                 THEN HalPeriod(CHOOSE v \in SuppliedPeriod(call) : TRUE)
                 ELSE call.rd.period
            /\ cachedTime = ReadTime(rtcTime)
       /\ call.op \in DateSetters =>
            /\ \A f \in DateFields :
                 rtcDate[f] = ExpectedField(call, f, call.rd)
            /\ cachedDate = ReadDate(rtcDate)

\* C2, amended.  As above, except that the AM/PM period is taken from the
\* argument only in the 12-hour format: in the 24-hour format the period
\* read from the hardware is written back.
C2_WriteThrough ==
  (call.op \in TimeSetters \cup DateSetters /\ AllArgsValid(call)) =>
       /\ call.op \in TimeSetters =>
            /\ \A f \in TimeFields :
                 rtcTime[f] = ExpectedField(call, f, call.rd)
            /\ rtcTime.period =
                 IF SuppliedPeriod(call) # {} /\ _format = "HOUR_12"
                 THEN HalPeriod(CHOOSE v \in SuppliedPeriod(call) : TRUE)
                 ELSE call.rd.period
            /\ cachedTime = ReadTime(rtcTime)
       /\ call.op \in DateSetters =>
            /\ \A f \in DateFields :
                 rtcDate[f] = ExpectedField(call, f, call.rd)
            /\ cachedDate = ReadDate(rtcDate)

\* setMinutes(59) right after a tick the members had not seen: the minutes
\* are the argument, the seconds those of the hardware, not of the members.
C2_Witness ==
  /\ call.op = "setMinutes"
  /\ call.args[1] = 59
  /\ rtcTime.minutes = 59
  /\ rtcTime.seconds = 1
  /\ _seconds = 1

(* --------------------------------- C3 --------------------------------- *)

\* C3.  When the hardware holds values in range at the start of a field
\* setter, whatever the arguments, the values handed to RTC_SetTime and
\* RTC_SetDate are in range: subSeconds 0..999, seconds and minutes 0..59,
\* hours 0..23, weekDay 1..7, day 1..31, month 1..12, year 0..99.
C3_SettersKeepRange ==
  /\ (call.op \in TimeSetters /\ TimeInRange(call.rd)) => TimeInRange(rtcTime)
  /\ (call.op \in DateSetters /\ DateInRange(call.rd)) => DateInRange(rtcDate)

\* setDate(8, 32, 13, 255) has been called and the date written is valid.
C3_Witness ==
  /\ call.op = "setDate"
  /\ call.args = <<8, 32, 13, 255>>
  /\ DateInRange(rtcDate)
  /\ rtcDate.month = 12

(* --------------------------------- C9 --------------------------------- *)

TimeGetters == {"getSubSeconds", "getSeconds", "getMinutes", "getHours",
                "getTime"}

DateGetters == {"getWeekDay", "getDay", "getMonth", "getYear", "getDate"}

AlarmGetters == {"getAlarmSubSeconds", "getAlarmSeconds", "getAlarmMinutes",
                 "getAlarmHours", "getAlarmDay"}

\* What the getter named op returns when it reads the hardware as it is.
HardwareValue(op) ==
  CASE op = "getSubSeconds" -> <<rtcTime.subSeconds>>
    [] op = "getSeconds" -> <<rtcTime.seconds>>
    [] op = "getMinutes" -> <<rtcTime.minutes>>
    [] op = "getHours" -> <<rtcTime.hours, WrapPeriod(rtcTime.period)>>
    [] op = "getTime" -> <<rtcTime.hours, rtcTime.minutes, rtcTime.seconds,
                           rtcTime.subSeconds, WrapPeriod(rtcTime.period)>>
    [] op = "getWeekDay" -> <<rtcDate.wday>>
    [] op = "getDay" -> <<rtcDate.day>>
    [] op = "getMonth" -> <<rtcDate.month>>
    [] op = "getYear" -> <<rtcDate.year>>
    [] op = "getDate" -> <<rtcDate.wday, rtcDate.day, rtcDate.month,
                           rtcDate.year>>
    [] op = "getAlarmSubSeconds" -> <<rtcAlarm.subSeconds>>
    [] op = "getAlarmSeconds" -> <<rtcAlarm.seconds>>
    [] op = "getAlarmMinutes" -> <<rtcAlarm.minutes>>
    [] op = "getAlarmHours" -> <<rtcAlarm.hours, WrapPeriod(rtcAlarm.period)>>
    [] op = "getAlarmDay" -> <<rtcAlarm.day>>

\* C1.  Every time, date and alarm getter returns what the hardware holds
\* at the moment of the call (a getter leaves the hardware as it is), and
\* the members of its group then equal the hardware too; what the members
\* held before the call plays no part.
C1_GettersReadHardware ==
  /\ call.op \in TimeGetters \cup DateGetters \cup AlarmGetters =>
       call.ret = HardwareValue(call.op)
  /\ call.op \in TimeGetters => cachedTime = ReadTime(rtcTime)
  /\ call.op \in DateGetters => cachedDate = ReadDate(rtcDate)
  /\ call.op \in AlarmGetters =>
       /\ _alarmDay = rtcAlarm.day
       /\ _alarmHours = rtcAlarm.hours
       /\ _alarmMinutes = rtcAlarm.minutes
       /\ _alarmSeconds = rtcAlarm.seconds
       /\ _alarmSubSeconds = rtcAlarm.subSeconds

\* getSeconds right after the second 23:59:59 of 2099-12-31 has passed on
\* the hardware: it returns 0, the value after the carry.
C1_Witness ==
  /\ call.op = "getSeconds"
  /\ call.ret = <<0>>
  /\ ticks = 1
  /\ rtcTime.hours = 0
  /\ rtcDate.year = 0
  /\ rtcDate.day = 1

(* --------------------------------- C4 --------------------------------- *)

\* C4.  After setEpoch(ts, subSeconds) the sub-seconds member and the
\* sub-seconds passed to RTC_SetTime are within 0..999, whatever the
\* subSeconds argument.
C4_EpochSubSecondsValidated ==
  call.op = "setEpoch" =>
    /\ _subSeconds \in 0..999
    /\ rtcTime.subSeconds \in 0..999

(* --------------------------------- C5 --------------------------------- *)

\* C5.  After setEpoch(ts) the calendar members and the values passed to
\* RTC_SetDate and RTC_SetTime are in range: year 0..99, month 1..12, day
\* 1..31, week day 1..7, hours 0..23, minutes 0..59, seconds 0..59.
C5_EpochFieldsInRange ==
  call.op = "setEpoch" =>
    /\ DateInRange(cachedDate)
    /\ DateInRange(rtcDate)
    /\ \A f \in {"hours", "minutes", "seconds"} :
         cachedTime[f] \in FieldRange(f) /\ rtcTime[f] \in FieldRange(f)

(* --------------------------------- C6 --------------------------------- *)

\* The broken-down time of 2000-01-01 00:00:00.
AnchorTm == gmtime(EpochOff)

\* C6.  setEpoch(ts, ss) with ts below 946684800 leaves the members and
\* the hardware as setEpoch(946684800, ss) does from the same state, and
\* setAlarmEpoch(ts, match, ss) with such a ts leaves the alarm members and
\* makes the driver call that setAlarmEpoch(946684800, match, ss) makes.
C6_EpochClamped ==
  /\ (call.op = "setEpoch" /\ U32Less(call.args[1], EpochOff)) =>
       LET t == [EpochTime(AnchorTm, call.args[2])
                   EXCEPT !.hoursPeriod = call.rd.hoursPeriod]
           d == EpochDate(AnchorTm)
       IN /\ cachedTime = t
          /\ cachedDate = d
          /\ rtcTime = RTC_SetTime(t.hours, t.minutes, t.seconds,
                                   t.subSeconds, HalPeriod(t.hoursPeriod))
          /\ rtcDate = RTC_SetDate(d.year, d.month, d.day, d.wday)
  /\ (call.op = "setAlarmEpoch" /\ U32Less(call.args[1], EpochOff)) =>
       LET a == [AlarmFromTm(call.rd, AnchorTm, call.args[3])
                   EXCEPT !.match = call.args[2]]
       IN /\ cachedAlarm = a
          /\ call.hal = EnableAlarmCall(a, call.args[2])

\* setEpoch(946684799, 1000), the last second of 1999, has set the clock to
\* Saturday 2000-01-01 00:00:00.
C6_Witness ==
  /\ call.op = "setEpoch"
  /\ call.args = <<Ts(10956, 86399), 1000>>
  /\ rtcDate = RTC_SetDate(0, 1, 1, 6)
  /\ rtcTime.hours = 0
  /\ rtcTime.seconds = 0

(* --------------------------------- C7 --------------------------------- *)

\* C7.  getY2kEpoch called right after setY2kEpoch(ts), with no tick in
\* between, returns ts; and getY2kEpoch always returns what getEpoch
\* returns in the same state less 946684800.
C7_Y2kRoundTrip ==
  /\ [][(call.op = "setY2kEpoch" /\ call'.op = "getY2kEpoch") =>
          call'.ret = call.args]_vars
  /\ [](call.op = "getY2kEpoch" =>
          call.ret = <<U32Sub(EpochValue, EpochOff)>>)

(* --------------------------------- C8 --------------------------------- *)

\* The alarm getter that matches an alarm setter of one field.
AlarmGetterOf(op) ==
  CASE op = "setAlarmSubSeconds" -> "getAlarmSubSeconds"
    [] op = "setAlarmSeconds" -> "getAlarmSeconds"
    [] op = "setAlarmMinutes" -> "getAlarmMinutes"
    [] op = "setAlarmDay" -> "getAlarmDay"
    [] OTHER -> "none"

\* C8.  The matching alarm getter called right after setAlarmSubSeconds,
\* setAlarmSeconds, setAlarmMinutes or setAlarmDay with a valid value v,
\* with no enableAlarm in between, returns v.
C8_AlarmRoundTrip ==
  [][(/\ AlarmGetterOf(call.op) # "none"
      /\ call'.op = AlarmGetterOf(call.op)
      /\ call.args[1] \in FieldRange(
            CASE call.op = "setAlarmSubSeconds" -> "subSeconds"
              [] call.op = "setAlarmSeconds" -> "seconds"
              [] call.op = "setAlarmMinutes" -> "minutes"
              [] call.op = "setAlarmDay" -> "day"))
     => call'.ret = call.args]_vars

(* -------------------------------- C10 --------------------------------- *)

\* C10.  enableAlarm(match) calls RTC_StopAlarm for MATCH_OFF,
\* RTC_StartAlarm with the alarm members and the match for the six matches,
\* and makes no driver call for any other value; and every RTC_StartAlarm
\* call, from enableAlarm or setAlarmEpoch, receives day 1..31, hours
\* 0..23, minutes 0..59, seconds 0..59 and sub-seconds 0..999.
C10_AlarmProgrammedInRange ==
  /\ call.op = "enableAlarm" =>
       /\ call.args[1] = "MATCH_OFF" => call.hal = <<"RTC_StopAlarm">>
       /\ (IsAlarmMatch(call.args[1]) /\ call.args[1] # "MATCH_OFF") =>
            call.hal = <<"RTC_StartAlarm", _alarmDay, _alarmHours,
                         _alarmMinutes, _alarmSeconds, _alarmSubSeconds,
                         HalPeriod(_alarmPeriod), call.args[1]>>
       /\ ~IsAlarmMatch(call.args[1]) => call.hal = NoArgs
  /\ (call.op \in {"enableAlarm", "setAlarmEpoch"}
      /\ call.hal # NoArgs /\ call.hal # <<"RTC_StopAlarm">>) =>
       /\ call.hal[2] \in FieldRange("day")
       /\ call.hal[3] \in FieldRange("hours")
       /\ call.hal[4] \in FieldRange("minutes")
       /\ call.hal[5] \in FieldRange("seconds")
       /\ call.hal[6] \in FieldRange("subSeconds")

(* -------------------------------- C11 --------------------------------- *)

\* The calls that set the clock.
ClockSetters == TimeSetters \cup DateSetters \cup {"setEpoch", "setY2kEpoch"}

\* C11.  _timeSet is true after a call that sets the clock (its arguments
\* valid or not) and after a begin() whose RTC_init reported no
\* re-initialisation, false at the start, after end() and after a begin()
\* whose RTC_init reported one; configForLowPower, which ends on such a
\* setter or begin(), leaves it true; and no other call (getter, alarm
\* setter, enableAlarm, disableAlarm) nor the running clock changes it.
C11_TimeSetLifecycle ==
  /\ [](/\ call.op = "none" => ~_timeSet
        /\ call.op \in ClockSetters => _timeSet
        /\ call.op = "begin" => (_timeSet <=> ~call.ret[1])
        /\ call.op = "end" => ~_timeSet
        /\ call.op = "configForLowPower" => _timeSet)
  /\ [][call'.op \notin
          ClockSetters \cup {"begin", "end", "configForLowPower"}
        => _timeSet' = _timeSet]_vars

\* getTime after setTime(12, 0, 0, 0, AM) and then end(): the flag end()
\* cleared is still clear.
C11_Witness ==
  /\ call.op = "getTime"
  /\ call.ret[1] = 12
  /\ ~rtcConfigured
  /\ ~_timeSet

(* -------------------------------- C12 --------------------------------- *)

\* C12.  configForLowPower(source) with a source other than the current
\* one, on an RTC that is configured and does not tick during the call,
\* leaves the hardware time (hours, minutes, seconds, sub-seconds, period)
\* and date (week day, day, month, year) as they were, the clock source at
\* source and _timeSet true.
C12_LowPowerKeepsClock ==
  [][(/\ call'.op = "configForLowPower"
      /\ call'.args[1] # _clockSource
      /\ rtcConfigured)
     => /\ rtcTime' = rtcTime
        /\ rtcDate' = rtcDate
        /\ _clockSource' = call'.args[1]
        /\ _timeSet']_vars

(* -------------------------------- C13 --------------------------------- *)

\* The alarm members hold values the alarm setters accept.
AlarmMembersInRange ==
  /\ _alarmDay \in FieldRange("day")
  /\ _alarmHours \in FieldRange("hours")
  /\ _alarmMinutes \in FieldRange("minutes")
  /\ _alarmSeconds \in FieldRange("seconds")
  /\ _alarmSubSeconds \in FieldRange("subSeconds")

\* C13.  configForLowPower(source) with a source other than the current
\* one, on an RTC that is configured and whose alarm members are in range,
\* leaves the alarm day, hours, minutes, seconds, sub-seconds and period
\* members as they were; and if the hardware alarm is set, the alarm is
\* enabled again with the match the members held before the call.
C13_LowPowerKeepsAlarm ==
  [][(/\ call'.op = "configForLowPower"
      /\ call'.args[1] # _clockSource
      /\ rtcConfigured
      /\ AlarmMembersInRange)
     => /\ _alarmDay' = _alarmDay
        /\ _alarmHours' = _alarmHours
        /\ _alarmMinutes' = _alarmMinutes
        /\ _alarmSeconds' = _alarmSeconds
        /\ _alarmSubSeconds' = _alarmSubSeconds
        /\ _alarmPeriod' = _alarmPeriod
        /\ rtcAlarmSet =>
             /\ _alarmMatch' = _alarmMatch
             /\ (IsAlarmMatch(_alarmMatch) /\ _alarmMatch # "MATCH_OFF") =>
                  rtcAlarmSet' /\ rtcAlarm'.match = _alarmMatch]_vars

====
